---- MODULE Spec2Model ----
(***************************************************************************)
(* A model of the calculator of app/components/Calculator.vue: the editing *)
(* state machine (the four reactive fields and the handlers that mutate    *)
(* them) and the expression engine (tokenize, toRPN, evalRPN,              *)
(* formatNumber).                                                          *)
(*                                                                         *)
(* A JavaScript string is a sequence of one-character strings.  A          *)
(* JavaScript number is a record [n, d, e] standing for (n / d) * 10^e in  *)
(* canonical form, or NaN; arithmetic on these values is exact, the        *)
(* rounding of 64-bit floating point is not modelled.                      *)
(***************************************************************************)
EXTENDS Integers, Sequences, FiniteSets, TLC

----------------------------------------------------------------------------
(* Characters and strings *)

DigitChars == {"0", "1", "2", "3", "4", "5", "6", "7", "8", "9"}

\* the character class [+\-×÷] of appendOperator's two regular expressions
OperatorChars == {"+", "-", "×", "÷"}

\* the string '+-×÷*/' tokenize tests an operator character against
TokenizeOpChars == {"+", "-", "×", "÷", "*", "/"}

\* the character class [0-9.\-] of tokenize's number scan
NumberChars == DigitChars \cup {".", "-"}

ErrorText == <<"E", "r", "r", "o", "r">>

DigitValue(c) ==
    CASE c = "0" -> 0 [] c = "1" -> 1 [] c = "2" -> 2 [] c = "3" -> 3
      [] c = "4" -> 4 [] c = "5" -> 5 [] c = "6" -> 6 [] c = "7" -> 7
      [] c = "8" -> 8 [] c = "9" -> 9

DigitChar(k) ==
    CASE k = 0 -> "0" [] k = 1 -> "1" [] k = 2 -> "2" [] k = 3 -> "3"
      [] k = 4 -> "4" [] k = 5 -> "5" [] k = 6 -> "6" [] k = 7 -> "7"
      [] k = 8 -> "8" [] k = 9 -> "9"

\* String.prototype.slice(from, to) with 0-based, end-exclusive indices
Slice(s, from, to) == SubSeq(s, from + 1, to)

StartsWith(s, c) == Len(s) > 0 /\ s[1] = c

Includes(s, c) == \E i \in 1..Len(s) : s[i] = c

\* String.prototype.replace(c, ''): removes the first occurrence of c
RemoveFirst(s, c) ==
    IF Includes(s, c)
    THEN LET i == CHOOSE k \in 1..Len(s) : s[k] = c /\ \A j \in 1..(k - 1) : s[j] # c
         IN  SubSeq(s, 1, i - 1) \o SubSeq(s, i + 1, Len(s))
    ELSE s

RECURSIVE TrimStart(_)
TrimStart(s) == IF Len(s) > 0 /\ s[1] = " " THEN TrimStart(Tail(s)) ELSE s

RECURSIVE TrimEnd(_)
TrimEnd(s) ==
    IF Len(s) > 0 /\ s[Len(s)] = " " THEN TrimEnd(SubSeq(s, 1, Len(s) - 1)) ELSE s

\* String.prototype.trim (the strings of the model hold no other white space)
Trim(s) == TrimEnd(TrimStart(s))

----------------------------------------------------------------------------
(* Numbers *)

NaN == [n |-> 0, d |-> 0, e |-> 0]

Zero == [n |-> 0, d |-> 1, e |-> 0]

IsNaN(x) == x.d = 0

\* Number.isFinite: the infinities need a magnitude above 1.8e308 and do not
\* arise within the bounds of the model
IsFinite(x) == ~IsNaN(x)

Abs(k) == IF k < 0 THEN -k ELSE k

RECURSIVE GCD(_, _)
GCD(a, b) == IF b = 0 THEN a ELSE GCD(b, a % b)

RECURSIVE Pow10(_)
Pow10(k) == IF k <= 0 THEN 1 ELSE 10 * Pow10(k - 1)

\* the canonical form of (n / d) * 10^e, for d > 0: d has no factor 2 or 5,
\* n no factor 10, and n / d is in lowest terms
RECURSIVE Norm(_, _, _)
Norm(n, d, e) ==
    IF n = 0 THEN Zero
    ELSE IF d % 2 = 0 THEN Norm(n * 5, d \div 2, e - 1)
    ELSE IF d % 5 = 0 THEN Norm(n * 2, d \div 5, e - 1)
    ELSE IF Abs(n) % 10 = 0 THEN Norm(n \div 10, d, e + 1)
    ELSE LET g == GCD(Abs(n), d) IN [n |-> n \div g, d |-> d \div g, e |-> e]

FromInt(k) == Norm(k, 1, 0)

Neg(x) == [x EXCEPT !.n = -x.n]

\* a + b
Add(a, b) ==
    IF IsNaN(a) \/ IsNaN(b) THEN NaN
    ELSE LET e == IF a.e < b.e THEN a.e ELSE b.e
         IN  Norm(a.n * Pow10(a.e - e) * b.d + b.n * Pow10(b.e - e) * a.d, a.d * b.d, e)

\* a - b
Sub(a, b) == IF IsNaN(a) \/ IsNaN(b) THEN NaN ELSE Add(a, Neg(b))

\* a * b
Mul(a, b) ==
    IF IsNaN(a) \/ IsNaN(b) THEN NaN ELSE Norm(a.n * b.n, a.d * b.d, a.e + b.e)

\* a / b for b # 0 (the code never divides by zero, see evalRPN)
Div(a, b) ==
    IF IsNaN(a) \/ IsNaN(b) \/ b.n = 0 THEN NaN
    ELSE IF b.n > 0 THEN Norm(a.n * b.d, a.d * b.n, a.e - b.e)
    ELSE Norm(-(a.n * b.d), a.d * (-b.n), a.e - b.e)

\* the decimal digits of k > 0, most significant first
RECURSIVE DigitsOf(_)
DigitsOf(k) ==
    IF k < 10 THEN <<DigitChar(k)>> ELSE Append(DigitsOf(k \div 10), DigitChar(k % 10))

\* the value of a string of digits
RECURSIVE DigitsValue(_)
DigitsValue(s) ==
    IF Len(s) = 0 THEN 0
    ELSE 10 * DigitsValue(SubSeq(s, 1, Len(s) - 1)) + DigitValue(s[Len(s)])

AllDigits(s) == \A i \in 1..Len(s) : s[i] \in DigitChars

RECURSIVE Zeros(_)
Zeros(k) == IF k <= 0 THEN <<>> ELSE <<"0">> \o Zeros(k - 1)

\* the position of the first c in s, or 0
IndexOf(s, c) ==
    IF Includes(s, c)
    THEN CHOOSE k \in 1..Len(s) : s[k] = c /\ \A j \in 1..(k - 1) : s[j] # c
    ELSE 0

\* Number(s) for the strings the calculator holds: StringToNumber of an
\* optional sign, digits with at most one decimal point and an optional
\* exponent part; the empty string is 0 and anything else is NaN
Number(str) ==
    LET t    == Trim(str)
        neg  == StartsWith(t, "-")
        u    == IF neg \/ StartsWith(t, "+") THEN Tail(t) ELSE t
        ei   == IndexOf(u, "e")
        mant == IF ei = 0 THEN u ELSE SubSeq(u, 1, ei - 1)
        ex   == IF ei = 0 THEN <<>> ELSE SubSeq(u, ei + 1, Len(u))
        exn  == StartsWith(ex, "-")
        exd  == IF exn \/ StartsWith(ex, "+") THEN Tail(ex) ELSE ex
        di   == IndexOf(mant, ".")
        ip   == IF di = 0 THEN mant ELSE SubSeq(mant, 1, di - 1)
        fp   == IF di = 0 THEN <<>> ELSE SubSeq(mant, di + 1, Len(mant))
        exv  == IF exn THEN -DigitsValue(exd) ELSE DigitsValue(exd)
        m    == DigitsValue(ip \o fp)
    IN  IF t = <<>> THEN Zero
        ELSE IF /\ AllDigits(ip) /\ AllDigits(fp) /\ Len(ip) + Len(fp) > 0
                /\ (ei = 0 \/ (AllDigits(exd) /\ Len(exd) > 0))
             THEN Norm(IF neg THEN -m ELSE m, 1, exv - Len(fp))
             ELSE NaN

\* whether the model has a text for x: NaN, or a value with a finite decimal
\* expansion (a quotient such as 1/3 has none)
HasText(x) == IsNaN(x) \/ x.d = 1

\* the significant decimal digits of a nonzero x with x.d = 1
Mantissa(x) == DigitsOf(Abs(x.n))

\* the position of the decimal point of x relative to the start of
\* Mantissa(x): 10^(PointPos - 1) <= |x| < 10^PointPos
PointPos(x) == Len(Mantissa(x)) + x.e

SignText(x) == IF x.n < 0 THEN <<"-">> ELSE <<>>

ExponentText(k) ==
    IF k < 0 THEN <<"e", "-">> \o DigitsOf(-k)
    ELSE IF k = 0 THEN <<"e", "+", "0">>
    ELSE <<"e", "+">> \o DigitsOf(k)

\* Number.prototype.toString (also String(x)) of a finite x
NumberToString(x) ==
    IF x.n = 0 THEN <<"0">>
    ELSE LET D == Mantissa(x)
             k == Len(D)
             p == PointPos(x)
         IN  SignText(x) \o
             (IF k <= p /\ p <= 21 THEN D \o Zeros(p - k)
              ELSE IF 0 < p /\ p <= 21
                   THEN SubSeq(D, 1, p) \o <<".">> \o SubSeq(D, p + 1, k)
              ELSE IF -6 < p /\ p <= 0 THEN <<"0", ".">> \o Zeros(-p) \o D
              ELSE IF k = 1 THEN D \o ExponentText(p - 1)
              ELSE <<D[1], ".">> \o SubSeq(D, 2, k) \o ExponentText(p - 1))

\* the digit string s plus one; one digit longer when s is all nines
RECURSIVE IncDigits(_)
IncDigits(s) ==
    IF Len(s) = 0 THEN <<"1">>
    ELSE IF s[Len(s)] = "9" THEN IncDigits(SubSeq(s, 1, Len(s) - 1)) \o <<"0">>
    ELSE SubSeq(s, 1, Len(s) - 1) \o <<DigitChar(DigitValue(s[Len(s)]) + 1)>>

\* D rounded to m significant digits, half away from zero: <<digits, carry>>
\* where carry is 1 when the rounding carried into a new leading digit
RoundDigits(D, m) ==
    IF Len(D) <= m THEN <<D \o Zeros(m - Len(D)), 0>>
    ELSE LET head == SubSeq(D, 1, m)
             up   == DigitValue(D[m + 1]) >= 5
             r    == IF up THEN IncDigits(head) ELSE head
         IN  IF Len(r) > m THEN <<SubSeq(r, 1, m), 1>> ELSE <<r, 0>>

\* Number.prototype.toExponential(f) of a finite x
ToExponential(x, f) ==
    IF x.n = 0 THEN <<"0", ".">> \o Zeros(f) \o ExponentText(0)
    ELSE LET r == RoundDigits(Mantissa(x), f + 1)
             D == r[1]
         IN  SignText(x) \o <<D[1], ".">> \o SubSeq(D, 2, f + 1)
                \o ExponentText(PointPos(x) - 1 + r[2])

\* Number.prototype.toPrecision(p) of a finite x
ToPrecision(x, p) ==
    IF x.n = 0 THEN <<"0", ".">> \o Zeros(p - 1)
    ELSE LET r  == RoundDigits(Mantissa(x), p)
             D  == r[1]
             ex == PointPos(x) - 1 + r[2]
         IN  SignText(x) \o
             (IF ex < -6 \/ ex >= p
              THEN <<D[1], ".">> \o SubSeq(D, 2, p) \o ExponentText(ex)
              ELSE IF ex = p - 1 THEN D
              ELSE IF ex >= 0
                   THEN SubSeq(D, 1, ex + 1) \o <<".">> \o SubSeq(D, ex + 2, p)
              ELSE <<"0", ".">> \o Zeros(-(ex + 1)) \o D)

\* abs < 1e-6 and abs >= 1e12, for a nonzero x
BelowMicro(x) == PointPos(x) <= -6
AtLeastTera(x) == PointPos(x) >= 13

\* formatNumber without the test of the magnitude: toString decides alone
formatNumberByText(x) ==
    IF ~IsFinite(x) THEN ErrorText
    ELSE LET s == NumberToString(x)
         IN  IF Includes(s, "e") THEN ToExponential(x, 8)
             ELSE IF Len(s) > 18 THEN ToPrecision(x, 16)
             ELSE s

formatNumber(x) ==
    IF ~IsFinite(x) THEN ErrorText
    ELSE IF x.n # 0 /\ (BelowMicro(x) \/ AtLeastTera(x)) THEN ToExponential(x, 8)
    ELSE LET s == NumberToString(x)
         IN  IF Includes(s, "e") THEN ToExponential(x, 8)
             ELSE IF Len(s) > 18 THEN ToPrecision(x, 16)
             ELSE s

----------------------------------------------------------------------------
(* The expression engine *)

\* type Tok = { type: 'num' | 'op' | 'lpar' | 'rpar', v: string }
Tok(type, v) == [type |-> type, v |-> v]

\* NumberScanEnd without the break at a second decimal point
RECURSIVE NumberScanEndAnyDots(_, _, _, _)
NumberScanEndAnyDots(s, i, j, dot) ==
    IF j < Len(s) /\ s[j + 1] \in NumberChars
    THEN IF s[j + 1] = "-" /\ j # i THEN j
         ELSE NumberScanEndAnyDots(s, i, j + 1, dot)
    ELSE j

\* NumberScanEnd with `dot > 0` for `dot > 1`: the scan breaks at every
\* decimal point
RECURSIVE NumberScanEndAtDot(_, _, _, _)
NumberScanEndAtDot(s, i, j, dot) ==
    IF j < Len(s) /\ s[j + 1] \in NumberChars
    THEN IF s[j + 1] = "." THEN j
         ELSE IF s[j + 1] = "-" /\ j # i THEN j
         ELSE NumberScanEndAtDot(s, i, j + 1, dot)
    ELSE j

\* the end j of tokenize's number scan that started at i (0-based, as in the
\* code): the inner while loop, from position j with `dot` dots seen so far
RECURSIVE NumberScanEnd(_, _, _, _)
NumberScanEnd(s, i, j, dot) ==
    IF j < Len(s) /\ s[j + 1] \in NumberChars
    THEN LET dot2 == IF s[j + 1] = "." THEN dot + 1 ELSE dot
         IN  IF s[j + 1] = "." /\ dot2 > 1 THEN j
             ELSE IF s[j + 1] = "-" /\ j # i THEN j
             ELSE NumberScanEnd(s, i, j + 1, dot2)
    ELSE j

\* tokenize's outer while loop from position i (0-based) with the tokens `out`
\* pushed so far; [ok |-> FALSE] stands for the thrown Error('bad token')
RECURSIVE TokenizeFrom(_, _, _)
TokenizeFrom(s, i, out) ==
    IF ~(i < Len(s)) THEN [ok |-> TRUE, toks |-> out]
    ELSE LET ch == s[i + 1]
         IN  IF ch = " " THEN TokenizeFrom(s, i + 1, out)
             ELSE IF ch = "(" THEN TokenizeFrom(s, i + 1, Append(out, Tok("lpar", <<ch>>)))
             ELSE IF ch = ")" THEN TokenizeFrom(s, i + 1, Append(out, Tok("rpar", <<ch>>)))
             ELSE IF ch \in TokenizeOpChars
                  THEN LET op == IF ch = "*" THEN "×" ELSE IF ch = "/" THEN "÷" ELSE ch
                       IN  TokenizeFrom(s, i + 1, Append(out, Tok("op", <<op>>)))
             ELSE IF ch \in NumberChars
                  THEN LET j == NumberScanEnd(s, i, i, 0)
                       IN  TokenizeFrom(s, j, Append(out, Tok("num", Slice(s, i, j))))
             ELSE [ok |-> FALSE, toks |-> <<>>]

tokenize(s) == TokenizeFrom(s, 0, <<>>)

\* the end of the number scan that tokenize's loop body starts at i
NumberEnd(s, i) == NumberScanEnd(s, i, i, 0)

\* one iteration of tokenize's outer while loop at position i < s.length
\* (0-based): the new i and out, or ok = FALSE for the thrown Error
TokenizeIteration(s, i, out) ==
    LET ch == s[i + 1]
    IN  IF ch = " " THEN [ok |-> TRUE, i |-> i + 1, out |-> out]
        ELSE IF ch = "("
             THEN [ok |-> TRUE, i |-> i + 1, out |-> Append(out, Tok("lpar", <<ch>>))]
        ELSE IF ch = ")"
             THEN [ok |-> TRUE, i |-> i + 1, out |-> Append(out, Tok("rpar", <<ch>>))]
        ELSE IF ch \in TokenizeOpChars
             THEN LET op == IF ch = "*" THEN "×" ELSE IF ch = "/" THEN "÷" ELSE ch
                  IN  [ok |-> TRUE, i |-> i + 1, out |-> Append(out, Tok("op", <<op>>))]
        ELSE IF ch \in NumberChars
             THEN LET j == NumberEnd(s, i)
                  IN  [ok |-> TRUE, i |-> j, out |-> Append(out, Tok("num", Slice(s, i, j)))]
        ELSE [ok |-> FALSE, i |-> i, out |-> out]

\* const prec = { '+':1, '-':1, '×':2, '÷':2 }
prec(v) == IF v \in {<<"+">>, <<"-">>} THEN 1 ELSE 2

\* PopHigher with `>` for `>=`: operators of equal precedence are not popped
RECURSIVE PopHigherStrict(_, _, _)
PopHigherStrict(t, out, stack) ==
    IF /\ Len(stack) > 0
       /\ stack[Len(stack)].type = "op"
       /\ prec(stack[Len(stack)].v) > prec(t.v)
    THEN PopHigherStrict(t, Append(out, stack[Len(stack)]),
                         SubSeq(stack, 1, Len(stack) - 1))
    ELSE [out |-> out, stack |-> stack]

\* toRPN's `while (...) out.push(stack.pop())` on an operator token t: the
\* stack is a sequence whose last element is its top
RECURSIVE PopHigher(_, _, _)
PopHigher(t, out, stack) ==
    IF /\ Len(stack) > 0
       /\ stack[Len(stack)].type = "op"
       /\ prec(stack[Len(stack)].v) >= prec(t.v)
    THEN PopHigher(t, Append(out, stack[Len(stack)]), SubSeq(stack, 1, Len(stack) - 1))
    ELSE [out |-> out, stack |-> stack]

\* toRPN's loop on a right parenthesis: pop to the output down to an 'lpar'
RECURSIVE PopToLpar(_, _)
PopToLpar(out, stack) ==
    IF Len(stack) > 0 /\ stack[Len(stack)].type # "lpar"
    THEN PopToLpar(Append(out, stack[Len(stack)]), SubSeq(stack, 1, Len(stack) - 1))
    ELSE [out |-> out, stack |-> stack]

\* toRPN's final `while (stack.length) out.push(stack.pop())`
RECURSIVE PopAll(_, _)
PopAll(out, stack) ==
    IF Len(stack) > 0
    THEN PopAll(Append(out, stack[Len(stack)]), SubSeq(stack, 1, Len(stack) - 1))
    ELSE out

\* RPNStep without the `stack.pop()` that discards the left parenthesis
RPNStepKeepLpar(t, out, stack) ==
    IF t.type = "num" THEN [out |-> Append(out, t), stack |-> stack]
    ELSE IF t.type = "op"
         THEN LET r == PopHigher(t, out, stack)
              IN  [out |-> r.out, stack |-> Append(r.stack, t)]
    ELSE IF t.type = "lpar" THEN [out |-> out, stack |-> Append(stack, t)]
    ELSE PopToLpar(out, stack)

\* the body of toRPN's for loop on token t
RPNStep(t, out, stack) ==
    IF t.type = "num" THEN [out |-> Append(out, t), stack |-> stack]
    ELSE IF t.type = "op"
         THEN LET r == PopHigher(t, out, stack)
              IN  [out |-> r.out, stack |-> Append(r.stack, t)]
    ELSE IF t.type = "lpar" THEN [out |-> out, stack |-> Append(stack, t)]
    ELSE LET r == PopToLpar(out, stack)
         IN  [out |-> r.out,
              stack |-> IF Len(r.stack) > 0
                        THEN SubSeq(r.stack, 1, Len(r.stack) - 1)
                        ELSE r.stack]

RECURSIVE RPNFrom(_, _, _, _)
RPNFrom(tokens, k, out, stack) ==
    IF k > Len(tokens) THEN PopAll(out, stack)
    ELSE LET r == RPNStep(tokens[k], out, stack)
         IN  RPNFrom(tokens, k + 1, r.out, r.stack)

toRPN(tokens) == RPNFrom(tokens, 1, <<>>, <<>>)

\* evalRPN's arithmetic on the popped a and b; a pop of the empty stack gives
\* undefined, which every operator turns into NaN
ApplyOp(v, a, b) ==
    IF v = <<"+">> THEN Add(a, b)
    ELSE IF v = <<"-">> THEN Sub(a, b)
    ELSE IF v = <<"×">> THEN Mul(a, b)
    ELSE IF IsFinite(b) /\ b.n = 0 THEN NaN ELSE Div(a, b)

\* the body of evalRPN's for loop on token t, st being the number stack
EvalStep(t, st) ==
    IF t.type = "num" THEN Append(st, Number(t.v))
    ELSE IF t.type = "op"
         THEN LET n    == Len(st)
                  b    == IF n >= 1 THEN st[n] ELSE NaN
                  a    == IF n >= 2 THEN st[n - 1] ELSE NaN
                  rest == IF n >= 2 THEN SubSeq(st, 1, n - 2) ELSE <<>>
              IN  Append(rest, ApplyOp(t.v, a, b))
    ELSE st

RECURSIVE EvalFrom(_, _, _)
EvalFrom(rpn, k, st) ==
    IF k > Len(rpn) THEN (IF Len(st) > 0 THEN st[Len(st)] ELSE NaN)
    ELSE EvalFrom(rpn, k + 1, EvalStep(rpn[k], st))

evalRPN(rpn) == EvalFrom(rpn, 1, <<>>)

\* evalRPN's number stack st after the first k tokens of rpn
RECURSIVE StackAfter(_, _)
StackAfter(rpn, k) ==
    IF k = 0 THEN <<>> ELSE EvalStep(rpn[k], StackAfter(rpn, k - 1))

\* evaluate(expr): [ok |-> FALSE] when tokenize throws
evaluate(expr) ==
    LET t == tokenize(expr)
    IN  IF t.ok THEN [ok |-> TRUE, val |-> evalRPN(toRPN(t.toks))]
        ELSE [ok |-> FALSE, val |-> NaN]

---------------------------------------------------------------------------------------------------------------------------------------------------
(* The editing state machine *)

VARIABLES
    displayPrimary,     \* ref('0'): the operand being edited, or a result
    displaySecondary,   \* ref(''): the expression line above it
    expression,         \* ref(''): the committed expression
    hasError,           \* ref(false)
    last,               \* the handler that ran last: its name, its argument
                        \* and the value of hasError when it was called
    nkeys,              \* how many handlers have run
    typed,              \* digit runs: the digits pressed so far
    src,                \* engine runs: the expression string being assembled
    tokens,             \* engine runs: the result of tokenize(src)
    rpn,                \* engine runs: toRPN of the tokens
    value,              \* engine runs: evalRPN of rpn
    stage,              \* engine runs: "typing", "done" or "failed"; stepwise
                        \* runs: the function that is running
    pos,                \* stepwise runs: tokenize's i, then the index of the
                        \* for loop of toRPN and of evalRPN
    stack               \* stepwise runs: toRPN's stack, then evalRPN's st

uiVars == <<displayPrimary, displaySecondary, expression, hasError>>
engineVars == <<src, tokens, rpn, value, stage, pos, stack>>
vars == <<displayPrimary, displaySecondary, expression, hasError, last, nkeys,
          typed, src, tokens, rpn, value, stage, pos, stack>>

\* const maxDigits = 16
maxDigits == 16

\* how many handler calls a run of the state machine makes
MaxKeys == 6

\* the digit keys pressed in the runs
KeyDigits == {"0", "2", "5"}

\* the operator keys: opKey('÷'), opKey('×'), opKey('-'), opKey('+')
KeyOperators == {"+", "-", "×", "÷"}

\* a handler call: counted, and recorded in `last`
Call(op, arg) ==
    /\ nkeys < MaxKeys
    /\ nkeys' = nkeys + 1
    /\ last' = [op |-> op, arg |-> arg, err |-> hasError]
    /\ UNCHANGED <<typed, engineVars>>

\* resetAll() with its assignment to displaySecondary left out
ResetFieldsKeepSecondary ==
    /\ expression' = <<>>
    /\ displayPrimary' = <<"0">>
    /\ hasError' = FALSE
    /\ UNCHANGED displaySecondary

\* the body of resetAll()
ResetFields ==
    /\ expression' = <<>>
    /\ displayPrimary' = <<"0">>
    /\ displaySecondary' = <<>>
    /\ hasError' = FALSE

resetAll ==
    /\ Call("resetAll", "")
    /\ ResetFields

\* the body of clearEntry()
ClearEntryBody ==
    IF hasError THEN ResetFields
    ELSE /\ displayPrimary' = <<"0">>
         /\ UNCHANGED <<displaySecondary, expression, hasError>>

clearEntry ==
    /\ Call("clearEntry", "")
    /\ ClearEntryBody

\* BackspaceText without the replacement of the last digit by "0"
BackspaceTextPlain(cur) == Slice(cur, 0, Len(cur) - 1)

\* displayPrimary after backspace(), hasError being false
BackspaceText(cur) ==
    IF Len(cur) <= 1 \/ (StartsWith(cur, "-") /\ Len(cur) = 2)
    THEN <<"0">>
    ELSE Slice(cur, 0, Len(cur) - 1)

\* backspace() without its `if (hasError.value) return`
BackspaceUnguarded ==
    /\ displayPrimary' = BackspaceText(displayPrimary)
    /\ UNCHANGED <<displaySecondary, expression, hasError>>

\* the body of backspace()
BackspaceBody ==
    IF hasError THEN UNCHANGED uiVars
    ELSE /\ displayPrimary' = BackspaceText(displayPrimary)
         /\ UNCHANGED <<displaySecondary, expression, hasError>>

backspace ==
    /\ Call("backspace", "")
    /\ BackspaceBody

\* displayPrimary.value.replace('-', '').replace('.', '').length
DigitCount(s) == Len(RemoveFirst(RemoveFirst(s, "-"), "."))

\* DigitPressed without the replacement of the lone "0" and "-0"
DigitPressedAppend(cur, d) ==
    IF DigitCount(cur) >= maxDigits THEN cur ELSE cur \o <<d>>

\* DigitPressed without the test of maxDigits
DigitPressedUncapped(cur, d) ==
    IF cur = <<"0">> THEN <<d>>
    ELSE IF cur = <<"-", "0">> THEN <<"-", d>>
    ELSE cur \o <<d>>

\* displayPrimary after inputDigit(d), hasError being false
DigitPressed(cur, d) ==
    IF DigitCount(cur) >= maxDigits THEN cur
    ELSE IF cur = <<"0">> THEN <<d>>
    ELSE IF cur = <<"-", "0">> THEN <<"-", d>>
    ELSE cur \o <<d>>

\* the body of inputDigit(d)
InputDigitBody(d) ==
    IF hasError THEN UNCHANGED uiVars
    ELSE /\ displayPrimary' = DigitPressed(displayPrimary, d)
         /\ UNCHANGED <<displaySecondary, expression, hasError>>

inputDigit(d) ==
    /\ Call("inputDigit", d)
    /\ InputDigitBody(d)

\* the body of inputDot()
InputDotBody ==
    IF hasError THEN UNCHANGED uiVars
    ELSE /\ displayPrimary' =
                IF ~Includes(displayPrimary, ".")
                THEN displayPrimary \o
                       (IF displayPrimary = <<>> THEN <<"0", ".">> ELSE <<".">>)
                ELSE displayPrimary
         /\ UNCHANGED <<displaySecondary, expression, hasError>>

inputDot ==
    /\ Call("inputDot", "")
    /\ InputDotBody

\* the body of toggleSign()
ToggleSignBody ==
    IF hasError THEN UNCHANGED uiVars
    ELSE /\ displayPrimary' =
                IF StartsWith(displayPrimary, "-")
                THEN Slice(displayPrimary, 1, Len(displayPrimary))
                ELSE IF displayPrimary = <<"0">> THEN <<"-", "0">>
                ELSE <<"-">> \o displayPrimary
         /\ UNCHANGED <<displaySecondary, expression, hasError>>

toggleSign ==
    /\ Call("toggleSign", "")
    /\ ToggleSignBody

percent ==
    /\ Call("percent", "")
    /\ IF hasError THEN UNCHANGED uiVars
       ELSE LET n == Number(displayPrimary)
            IN  /\ displayPrimary' =
                       IF ~IsFinite(n) THEN displayPrimary
                       ELSE NumberToString(Div(n, FromInt(100)))
                /\ UNCHANGED <<displaySecondary, expression, hasError>>

\* /[+\-×÷]$/.test(s)
EndsWithOperator(s) == Len(s) > 0 /\ s[Len(s)] \in OperatorChars

\* expression after appendOperator(op), cur being displayPrimary
OperatorAppended(expr, cur, op) ==
    IF expr # <<>> /\ EndsWithOperator(Trim(expr))
    THEN (IF EndsWithOperator(expr)
          THEN SubSeq(expr, 1, Len(expr) - 1) \o <<op>>
          ELSE expr)
    ELSE IF expr # <<>> THEN expr \o <<" ">> \o cur \o <<" ", op>>
    ELSE cur \o <<" ", op>>

\* the body of appendOperator(op)
AppendOperatorBody(op) ==
    IF hasError THEN UNCHANGED uiVars
    ELSE /\ expression' = OperatorAppended(expression, displayPrimary, op)
         /\ displayPrimary' = <<"0">>
         /\ displaySecondary' = expression'
         /\ UNCHANGED hasError

appendOperator(op) ==
    /\ Call("appendOperator", op)
    /\ AppendOperatorBody(op)

\* the string computeEquals evaluates
EqualsExpr ==
    Trim(IF expression # <<>>
         THEN expression \o <<" ">> \o displayPrimary
         ELSE displayPrimary)

\* ComputeEqualsBody without `expression.value = ''`
ComputeEqualsKeepExpression ==
    IF hasError THEN UNCHANGED uiVars
    ELSE LET r == evaluate(EqualsExpr)
         IN  IF r.ok
             THEN /\ HasText(r.val)
                  /\ displaySecondary' = EqualsExpr \o <<" ", "=">>
                  /\ displayPrimary' = formatNumber(r.val)
                  /\ UNCHANGED <<expression, hasError>>
             ELSE /\ hasError' = TRUE
                  /\ displayPrimary' = ErrorText
                  /\ UNCHANGED <<displaySecondary, expression>>

\* the body of computeEquals(); a run follows it where the result has a text
\* (HasText)
ComputeEqualsBody ==
    IF hasError THEN UNCHANGED uiVars
    ELSE LET r == evaluate(EqualsExpr)
         IN  IF r.ok
             THEN /\ HasText(r.val)
                  /\ displaySecondary' = EqualsExpr \o <<" ", "=">>
                  /\ displayPrimary' = formatNumber(r.val)
                  /\ expression' = <<>>
                  /\ UNCHANGED hasError
             ELSE /\ hasError' = TRUE
                  /\ displayPrimary' = ErrorText
                  /\ UNCHANGED <<displaySecondary, expression>>

computeEquals ==
    /\ Call("computeEquals", "")
    /\ ComputeEqualsBody

EngineIdle ==
    /\ src = <<>>
    /\ tokens = <<>>
    /\ rpn = <<>>
    /\ value = NaN
    /\ stage = "typing"
    /\ pos = 0
    /\ stack = <<>>

\* the state after setup: the initial values of the four refs
Init ==
    /\ displayPrimary = <<"0">>
    /\ displaySecondary = <<>>
    /\ expression = <<>>
    /\ hasError = FALSE
    /\ last = [op |-> "setup", arg |-> "", err |-> FALSE]
    /\ nkeys = 0
    /\ typed = <<>>
    /\ EngineIdle

\* handleKey dispatches to the same handlers as the buttons; the memory
\* functions are bound to no button or key
Next ==
    \/ resetAll
    \/ clearEntry
    \/ backspace
    \/ \E d \in KeyDigits : inputDigit(d)
    \/ inputDot
    \/ toggleSign
    \/ percent
    \/ \E op \in KeyOperators : appendOperator(op)
    \/ computeEquals

Spec == Init /\ [][Next]_vars

----------------------------------------------------------------------------
(* Digit runs: from the reset state, only digit keys are pressed *)

\* how many digits a digit run presses
MaxDigitKeys == 17

\* the digit keys of the digit runs
RunDigits == {"0", "7"}

PressDigit(d) ==
    /\ Len(typed) < MaxDigitKeys
    /\ typed' = Append(typed, d)
    /\ InputDigitBody(d)
    /\ UNCHANGED <<last, nkeys, engineVars>>

DigitNext == \E d \in RunDigits : PressDigit(d)

DigitSpec == Init /\ [][DigitNext]_vars

----------------------------------------------------------------------------
(* Editing runs: the handlers that edit the operand and commit it, without  *)
(* percent and computeEquals; digit keys are counted apart from the others  *)

\* how many handlers other than inputDigit an editing run calls
MaxEditKeys == 3

\* the digit key of the editing runs
EditDigits == {"7"}

EditDigit(d) ==
    /\ Len(typed) < MaxDigitKeys
    /\ typed' = Append(typed, d)
    /\ last' = [op |-> "inputDigit", arg |-> d, err |-> hasError]
    /\ InputDigitBody(d)
    /\ UNCHANGED <<nkeys, engineVars>>

\* a call of another handler
EditCall(op, arg) ==
    /\ nkeys < MaxEditKeys
    /\ nkeys' = nkeys + 1
    /\ last' = [op |-> op, arg |-> arg, err |-> hasError]
    /\ UNCHANGED <<typed, engineVars>>

EditDot == EditCall("inputDot", "") /\ InputDotBody

EditSign == EditCall("toggleSign", "") /\ ToggleSignBody

EditBackspace == EditCall("backspace", "") /\ BackspaceBody

EditClearEntry == EditCall("clearEntry", "") /\ ClearEntryBody

EditOperator(op) == EditCall("appendOperator", op) /\ AppendOperatorBody(op)

EditReset == EditCall("resetAll", "") /\ ResetFields

EditNext ==
    \/ \E d \in EditDigits : EditDigit(d)
    \/ EditDot
    \/ EditSign
    \/ EditBackspace
    \/ EditClearEntry
    \/ \E op \in KeyOperators : EditOperator(op)
    \/ EditReset

EditSpec == Init /\ [][EditNext]_vars

-----
(* Runs of the expression engine alone: an expression string is assembled   *)
(* character by character and then handed to evaluate()                     *)

\* the longest string assembled from arbitrary characters
MaxFreeLen == 4

\* the longest string assembled as an infix expression
MaxInfixLen == 7

\* the characters of the arbitrary strings: digits, the decimal point,
\* operators of both precedences (one in its ASCII spelling), parentheses,
\* the space, and a character tokenize does not recognize
SourceChars == {"3", "5", ".", "+", "-", "/", "(", ")", " ", "e"}

\* the characters of the infix expressions
InfixChars == {"2", "3", "+", "-", "×", "÷", "(", ")"}

\* the scan of an infix expression without spaces, from the left: `mode` is
\* "start" where an operand must begin, "num" inside a literal and "close"
\* after a right parenthesis; depth counts the open parentheses
RECURSIVE InfixScan(_, _, _, _)
InfixScan(s, i, depth, mode) ==
    IF i > Len(s) THEN [ok |-> TRUE, depth |-> depth, mode |-> mode]
    ELSE LET c == s[i]
         IN  IF c \in DigitChars
             THEN (IF mode = "close" THEN [ok |-> FALSE, depth |-> 0, mode |-> mode]
                   ELSE InfixScan(s, i + 1, depth, "num"))
             ELSE IF c = "("
             THEN (IF mode = "start" THEN InfixScan(s, i + 1, depth + 1, "start")
                   ELSE [ok |-> FALSE, depth |-> 0, mode |-> mode])
             ELSE IF c = ")"
             THEN (IF mode # "start" /\ depth > 0
                   THEN InfixScan(s, i + 1, depth - 1, "close")
                   ELSE [ok |-> FALSE, depth |-> 0, mode |-> mode])
             ELSE IF c \in OperatorChars
             THEN (IF mode # "start" THEN InfixScan(s, i + 1, depth, "start")
                   ELSE [ok |-> FALSE, depth |-> 0, mode |-> mode])
             ELSE [ok |-> FALSE, depth |-> 0, mode |-> mode]

\* s can be continued to a well-formed infix expression
InfixPrefix(s) == InfixScan(s, 1, 0, "start").ok

\* s is a well-formed infix expression of non-negative integer literals,
\* binary operators and balanced parentheses
WellFormedInfix(s) ==
    LET r == InfixScan(s, 1, 0, "start")
    IN  r.ok /\ r.depth = 0 /\ r.mode # "start"

TypeChar(c) ==
    /\ stage = "typing"
    /\ Len(src) < MaxFreeLen
    /\ src' = Append(src, c)
    /\ UNCHANGED <<tokens, rpn, value, stage, pos, stack, uiVars, last, nkeys, typed>>

\* no literal of s has more than one digit
OneDigitLiterals(s) ==
    \A i \in 1..(Len(s) - 1) : ~(s[i] \in DigitChars /\ s[i + 1] \in DigitChars)

\* the longer strings are infix expressions of one-digit literals
TypeInfix(c) ==
    /\ stage = "typing"
    /\ Len(src) < MaxInfixLen
    /\ InfixPrefix(Append(src, c))
    /\ OneDigitLiterals(Append(src, c))
    /\ src' = Append(src, c)
    /\ UNCHANGED <<tokens, rpn, value, stage, pos, stack, uiVars, last, nkeys, typed>>

\* evaluate(src), step by step as the code composes it
RunEvaluate ==
    /\ stage = "typing"
    /\ LET t == tokenize(src)
       IN  IF t.ok
           THEN /\ tokens' = t.toks
                /\ rpn' = toRPN(t.toks)
                /\ value' = evalRPN(toRPN(t.toks))
                /\ stage' = "done"
           ELSE /\ stage' = "failed"
                /\ UNCHANGED <<tokens, rpn, value>>
    /\ UNCHANGED <<src, pos, stack, uiVars, last, nkeys, typed>>

EngineNext ==
    \/ \E c \in SourceChars : TypeChar(c)
    \/ \E c \in InfixChars : TypeInfix(c)
    \/ RunEvaluate

EngineSpec == Init /\ [][EngineNext]_vars

----------------------------------------------------------------------------
(* Runs of formatNumber alone: a number is chosen and then formatted *)

\* the largest decimal exponent, in absolute value, of the numbers formatted
MaxFormatExp == 14

\* the significands of the numbers formatted
FormatMantissas == {0, 1, 5, 123456, 999999999}

\* the numbers formatted: NaN and (+-)m * 10^k
FormatInputs ==
    {NaN} \cup {Norm(sg * m, 1, k) : sg \in {1, -1}, m \in FormatMantissas,
                                     k \in (-MaxFormatExp)..MaxFormatExp}

FormatInit ==
    /\ value \in FormatInputs
    /\ stage = "typing"
    /\ displayPrimary = <<"0">>
    /\ displaySecondary = <<>>
    /\ expression = <<>>
    /\ hasError = FALSE
    /\ last = [op |-> "setup", arg |-> "", err |-> FALSE]
    /\ nkeys = 0
    /\ typed = <<>>
    /\ src = <<>>
    /\ tokens = <<>>
    /\ rpn = <<>>
    /\ pos = 0
    /\ stack = <<>>

\* displayPrimary.value = formatNumber(val)
RunFormat ==
    /\ stage = "typing"
    /\ displayPrimary' = formatNumber(value)
    /\ stage' = "done"
    /\ UNCHANGED <<displaySecondary, expression, hasError, last, nkeys, typed,
                   src, tokens, rpn, value, pos, stack>>

FormatNext == RunFormat

FormatSpec == FormatInit /\ [][FormatNext]_vars

----------------------------------------------------------------------------
(* Stepwise runs of evaluate(): a string is assembled, and evaluate() runs   *)
(* on it with one step per iteration of the outer loop of tokenize, of      *)
(* toRPN and of evalRPN                                                     *)

\* the longest string of a stepwise run
MaxScanLen == 4

\* the characters of the strings of the stepwise runs
ScanChars == {"3", ".", "-", "(", ")", " ", "e"}

StepFrame == UNCHANGED <<src, uiVars, last, nkeys, typed>>

ScanType(c) ==
    /\ stage = "typing"
    /\ Len(src) < MaxScanLen
    /\ src' = Append(src, c)
    /\ UNCHANGED <<tokens, rpn, value, stage, pos, stack, uiVars, last, nkeys, typed>>

\* evaluate(src) is called: tokenize(src) is at its first iteration
EvaluateCall ==
    /\ stage = "typing"
    /\ stage' = "tokenize"
    /\ UNCHANGED <<tokens, rpn, value, pos, stack>>
    /\ StepFrame

\* an iteration of tokenize's while loop
TokenizeLoop ==
    /\ stage = "tokenize"
    /\ pos < Len(src)
    /\ LET r == TokenizeIteration(src, pos, tokens)
       IN  IF r.ok
           THEN /\ pos' = r.i
                /\ tokens' = r.out
                /\ UNCHANGED stage
           ELSE /\ stage' = "failed"
                /\ UNCHANGED <<pos, tokens>>
    /\ UNCHANGED <<rpn, stack, value>>
    /\ StepFrame

\* tokenize returns out, and toRPN starts on it
TokenizeReturn ==
    /\ stage = "tokenize"
    /\ ~(pos < Len(src))
    /\ stage' = "toRPN"
    /\ pos' = 0
    /\ UNCHANGED <<tokens, rpn, stack, value>>
    /\ StepFrame

\* an iteration of toRPN's for loop
ToRPNLoop ==
    /\ stage = "toRPN"
    /\ pos < Len(tokens)
    /\ LET r == RPNStep(tokens[pos + 1], rpn, stack)
       IN  rpn' = r.out /\ stack' = r.stack
    /\ pos' = pos + 1
    /\ UNCHANGED <<stage, tokens, value>>
    /\ StepFrame

\* toRPN empties its stack and returns out, and evalRPN starts on it
ToRPNReturn ==
    /\ stage = "toRPN"
    /\ ~(pos < Len(tokens))
    /\ rpn' = PopAll(rpn, stack)
    /\ stack' = <<>>
    /\ stage' = "evalRPN"
    /\ pos' = 0
    /\ UNCHANGED <<tokens, value>>
    /\ StepFrame

\* the header of evalRPN's for loop: the next element of rpn is taken
EvalRPNTake ==
    /\ stage = "evalRPN"
    /\ pos < Len(rpn)
    /\ pos' = pos + 1

\* an iteration of evalRPN's for loop
EvalRPNLoop ==
    /\ EvalRPNTake
    /\ stack' = EvalStep(rpn[pos + 1], stack)
    /\ UNCHANGED <<stage, tokens, rpn, value>>
    /\ StepFrame

\* return st.pop() ?? NaN
EvalRPNReturn ==
    /\ stage = "evalRPN"
    /\ ~(pos < Len(rpn))
    /\ value' = IF Len(stack) > 0 THEN stack[Len(stack)] ELSE NaN
    /\ stage' = "done"
    /\ UNCHANGED <<pos, stack, tokens, rpn>>
    /\ StepFrame

StepNext ==
    \/ \E c \in ScanChars : ScanType(c)
    \/ EvaluateCall
    \/ TokenizeLoop
    \/ TokenizeReturn
    \/ ToRPNLoop
    \/ ToRPNReturn
    \/ EvalRPNLoop
    \/ EvalRPNReturn

\* once called, evaluate() runs on: a step of it that can be taken is taken.
\* For evalRPN's loop this is said of its header: the steps that move pos
\* while evalRPN runs are the steps of EvalRPNLoop.
StepSpec ==
    /\ Init
    /\ [][StepNext]_vars
    /\ WF_vars(TokenizeLoop)
    /\ WF_vars(TokenizeReturn)
    /\ WF_vars(ToRPNLoop)
    /\ WF_vars(ToRPNReturn)
    /\ WF_pos(EvalRPNTake)
    /\ WF_vars(EvalRPNReturn)

----------------------------------------------------------------------------
(* Standard arithmetic semantics of a well-formed infix expression, by the  *)
(* grammar                                                                  *)
(*     expr ::= term (('+' | '-') term)*                                    *)
(*     term ::= factor (('×' | '÷') factor)*                                *)
(*     factor ::= literal | '(' expr ')'                                    *)
(* Each operator reads the string s from position i and returns the value   *)
(* and the position after what it read; a division by zero gives NaN.       *)

RECURSIVE LiteralEnd(_, _)
LiteralEnd(s, i) ==
    IF i <= Len(s) /\ s[i] \in DigitChars THEN LiteralEnd(s, i + 1) ELSE i

RECURSIVE RefExpr(_, _)
RECURSIVE RefExprRest(_, _, _)
RECURSIVE RefTerm(_, _)
RECURSIVE RefTermRest(_, _, _)
RECURSIVE RefFactor(_, _)

RefFactor(s, i) ==
    IF s[i] = "("
    THEN LET r == RefExpr(s, i + 1) IN [val |-> r.val, pos |-> r.pos + 1]
    ELSE LET j == LiteralEnd(s, i)
         IN  [val |-> FromInt(DigitsValue(SubSeq(s, i, j - 1))), pos |-> j]

RefTermRest(s, acc, i) ==
    IF i <= Len(s) /\ s[i] \in {"×", "÷"}
    THEN LET f == RefFactor(s, i + 1)
         IN  RefTermRest(s, IF s[i] = "×" THEN Mul(acc, f.val) ELSE Div(acc, f.val), f.pos)
    ELSE [val |-> acc, pos |-> i]

RefTerm(s, i) == LET f == RefFactor(s, i) IN RefTermRest(s, f.val, f.pos)

RefExprRest(s, acc, i) ==
    IF i <= Len(s) /\ s[i] \in {"+", "-"}
    THEN LET t == RefTerm(s, i + 1)
         IN  RefExprRest(s, IF s[i] = "+" THEN Add(acc, t.val) ELSE Sub(acc, t.val), t.pos)
    ELSE [val |-> acc, pos |-> i]

RefExpr(s, i) == LET t == RefTerm(s, i) IN RefExprRest(s, t.val, t.pos)

RefValue(s) == RefExpr(s, 1).val

\* a token sequence that is a well-formed infix expression: operands and
\* binary operators alternate, parentheses are balanced and enclose
\* expressions
RECURSIVE TokenScan(_, _, _, _)
TokenScan(toks, k, depth, operand) ==
    IF k > Len(toks) THEN depth = 0 /\ ~operand
    ELSE LET ty == toks[k].type
         IN  IF ty = "num" THEN operand /\ TokenScan(toks, k + 1, depth, FALSE)
             ELSE IF ty = "lpar" THEN operand /\ TokenScan(toks, k + 1, depth + 1, TRUE)
             ELSE IF ty = "rpar"
                  THEN ~operand /\ depth > 0 /\ TokenScan(toks, k + 1, depth - 1, FALSE)
             ELSE ~operand /\ TokenScan(toks, k + 1, depth, TRUE)

WellFormedTokens(toks) == TokenScan(toks, 1, 0, TRUE)

IsParen(t) == t.type \in {"lpar", "rpar"}
IsNum(t) == t.type = "num"

CountOp(q, v) == Cardinality({k \in 1..Len(q) : q[k] = Tok("op", <<v>>)})
CountParens(q) == Cardinality({k \in 1..Len(q) : IsParen(q[k])})

----------------------------------------------------------------------------
(* Claims about the expression engine, checked under EngineSpec *)

\* C3: tokenize rewrites a '-' operator token that is the first token, or
\* that follows an operator or a left parenthesis, into Number("0"),
\* Operator(-), so no '-' operator token of its output (here: one that an
\* integer literal follows) is in such a position, and "-n+m" evaluates to m - n (as
\* "-5 + 3" to -2).
C3_UnaryMinus ==
    stage = "done" =>
        /\ \A k \in 1..(Len(tokens) - 1) :
               (/\ tokens[k] = Tok("op", <<"-">>)
                /\ tokens[k + 1].type = "num"
                /\ AllDigits(tokens[k + 1].v)) =>
                   k > 1 /\ tokens[k - 1].type \notin {"op", "lpar"}
        /\ (/\ Len(src) = 4 /\ src[1] = "-" /\ src[2] \in DigitChars
            /\ src[3] = "+" /\ src[4] \in DigitChars)
               => value = FromInt(DigitValue(src[4]) - DigitValue(src[2]))

\* C4: for a well-formed infix expression of non-negative integer literals,
\* + - × ÷ and balanced parentheses in which nothing is divided by zero,
\* evaluate gives the value of standard arithmetic (× and ÷ bind tighter,
\* equal precedence associates to the left, parentheses override);
\* "2 + 3 × 4" gives 14 and "(2 + 3) × 4" gives 20.
C4_InfixValue ==
    /\ (stage = "done" /\ WellFormedInfix(src) /\ IsFinite(RefValue(src)))
           => value = RefValue(src)
    /\ src = <<>> =>
           /\ evaluate(<<"2", " ", "+", " ", "3", " ", "×", " ", "4">>)
                  = [ok |-> TRUE, val |-> FromInt(14)]
           /\ evaluate(<<"(", "2", " ", "+", " ", "3", ")", " ", "×", " ", "4">>)
                  = [ok |-> TRUE, val |-> FromInt(20)]

\* C4's case: a parenthesized difference has been multiplied
C4_Witness ==
    /\ stage = "done"
    /\ src = <<"(", "2", "-", "3", ")", "×", "2">>
    /\ WellFormedInfix(src)
    /\ value = FromInt(-2)

\* C9: for a well-formed infix token sequence with balanced parentheses,
\* toRPN's output has the same operator tokens with the same multiplicities,
\* the same operand tokens in the same order, and no parenthesis token, so
\* its length is the input's minus the number of parentheses.
C9_PostfixPreservesTokens ==
    (stage = "done" /\ WellFormedTokens(tokens)) =>
        /\ \A v \in OperatorChars : CountOp(rpn, v) = CountOp(tokens, v)
        /\ SelectSeq(rpn, IsNum) = SelectSeq(tokens, IsNum)
        /\ CountParens(rpn) = 0
        /\ Len(rpn) = Len(tokens) - CountParens(tokens)

\* C9's case: a well-formed sequence with parentheses and two operators has
\* been converted
C9_Witness ==
    /\ stage = "done"
    /\ WellFormedTokens(tokens)
    /\ CountParens(tokens) = 2
    /\ Len(rpn) = 5
    /\ rpn[5].type = "op"

\* C10: toRPN fails on no token sequence, and its output never holds a
\* left or right parenthesis token, also when the parentheses of the input
\* do not match.
C10_NoParenInPostfix ==
    stage = "done" => \A k \in 1..Len(rpn) : ~IsParen(rpn[k])

\* some operator of q is applied with fewer than two values on the stack
Underflows(q) ==
    \E k \in 1..Len(q) : q[k].type = "op" /\ Len(StackAfter(q, k - 1)) < 2

\* some ÷ of q is applied with 0 on top of the stack
DividesByZero(q) ==
    \E k \in 1..Len(q) :
        /\ q[k] = Tok("op", <<"÷">>)
        /\ LET st == StackAfter(q, k - 1)
           IN  Len(st) >= 1 /\ st[Len(st)] = Zero

\* every operand token of q is an integer literal
IntegerOperands(q) == \A k \in 1..Len(q) : q[k].type = "num" => AllDigits(q[k].v)

\* C13: evalRPN returns NaN whenever an operator is applied with fewer than
\* two values on the stack, a ÷ is applied with right operand 0, or the stack
\* is empty at the end; otherwise its result is the only value left on the
\* stack (here: for postfix sequences whose operands are integer literals).
C13_SentinelOnMalformed ==
    (stage = "done" /\ IntegerOperands(rpn)) =>
        LET st == StackAfter(rpn, Len(rpn))
        IN  /\ (Underflows(rpn) \/ DividesByZero(rpn) \/ st = <<>>) => IsNaN(value)
            /\ st # <<>> => st = <<value>>

\* how many decimal points s holds
DotCount(s) == Cardinality({i \in 1..Len(s) : s[i] = "."})

----------------------------------------------------------------------------
(* Claims about the loops of the expression engine, checked under StepSpec *)

\* the stepwise run has ended as the functions themselves do
StepwiseAgrees ==
    /\ stage = "failed" => ~tokenize(src).ok
    /\ stage = "done" =>
           /\ tokenize(src) = [ok |-> TRUE, toks |-> tokens]
           /\ rpn = toRPN(tokens)
           /\ value = evalRPN(rpn)

\* C20: tokenize terminates on every string: each iteration of its loop
\* fails the call or moves the position forward by at least one character,
\* also when the character is a decimal point left by a number scan that
\* stopped early, and the position never passes the end of the string;
\* toRPN and evalRPN take one iteration for each element of their input; so
\* every call of evaluate ends, with a value or with the failure of tokenize.
C20_LoopsTerminate ==
    /\ [][stage = "tokenize" =>
             \/ stage' = "failed"
             \/ stage' = "toRPN" /\ pos = Len(src)
             \/ stage' = "tokenize" /\ pos' > pos /\ pos' <= Len(src)]_vars
    /\ [][stage = "toRPN" =>
             \/ stage' = "evalRPN" /\ pos = Len(tokens)
             \/ stage' = "toRPN" /\ pos' = pos + 1 /\ pos' <= Len(tokens)]_vars
    /\ [][stage = "evalRPN" =>
             \/ stage' = "done" /\ pos = Len(rpn)
             \/ stage' = "evalRPN" /\ pos' = pos + 1 /\ pos' <= Len(rpn)]_vars
    /\ (stage = "tokenize") ~> (stage \in {"done", "failed"})

\* C20's case: the run on "3.3." has ended: the first number scan stopped at
\* the second decimal point, which the next iteration took as a number
C20_Witness ==
    /\ stage = "done"
    /\ src = <<"3", ".", "3", ".">>
    /\ tokens = <<Tok("num", <<"3", ".", "3">>), Tok("num", <<".">>)>>
    /\ Len(rpn) = 2

----------------------------------------------------------------------------
(* Claims about formatNumber, checked under FormatSpec *)

\* |x| >= 10^k, for a finite nonzero x with a significand below 10^10
MagnitudeAtLeast(x, k) ==
    LET sh == k - x.e
    IN  IF sh <= 0 THEN TRUE
        ELSE IF sh > 9 THEN FALSE
        ELSE Abs(x.n) >= Pow10(sh)

\* s without its leading '-'
Unsigned(s) == IF StartsWith(s, "-") THEN Tail(s) ELSE s

\* digits, or digits '.' digits, after an optional '-'
IsPlainDecimal(s) ==
    LET u  == Unsigned(s)
        di == IndexOf(u, ".")
    IN  IF di = 0 THEN Len(u) > 0 /\ AllDigits(u)
        ELSE /\ di > 1 /\ di < Len(u)
             /\ AllDigits(SubSeq(u, 1, di - 1))
             /\ AllDigits(SubSeq(u, di + 1, Len(u)))

\* d '.' dddddddd 'e' sign digits, after an optional '-'
IsScientific(s) ==
    LET u == Unsigned(s)
    IN  /\ Len(u) >= 13
        /\ u[1] \in DigitChars
        /\ u[2] = "."
        /\ AllDigits(SubSeq(u, 3, 10))
        /\ u[11] = "e"
        /\ u[12] \in {"+", "-"}
        /\ AllDigits(SubSeq(u, 13, Len(u)))

\* C12: formatNumber gives the error text for a non-finite number, a plain
\* decimal string for zero and for a magnitude in [1e-6, 1e12), and
\* scientific notation for any other nonzero magnitude; 0.0000001 and 1e13
\* are in scientific notation and 123.456 is in plain decimal.
C12_FormatByMagnitude ==
    /\ stage = "done" =>
           IF ~IsFinite(value) THEN displayPrimary = ErrorText
           ELSE IF \/ value.n = 0
                   \/ MagnitudeAtLeast(value, -6) /\ ~MagnitudeAtLeast(value, 12)
                THEN IsPlainDecimal(displayPrimary)
                ELSE IsScientific(displayPrimary)
    /\ IsScientific(formatNumber(Number(<<"0", ".", "0", "0", "0", "0", "0", "0", "1">>)))
    /\ IsScientific(formatNumber(Number(<<"1", "e", "1", "3">>)))
    /\ formatNumber(Number(<<"1", "2", "3", ".", "4", "5", "6">>))
           = <<"1", "2", "3", ".", "4", "5", "6">>

\* C12's case: 1e13 has been formatted
C12_Witness ==
    /\ stage = "done"
    /\ value = Norm(1, 1, 13)
    /\ displayPrimary = <<"1", ".", "0", "0", "0", "0", "0", "0", "0", "0", "e", "+", "1", "3">>

----------------------------------------------------------------------------
(* Claims about the editing state machine, checked under Spec *)

\* the result computeEquals gets from evaluate() in the current state
EqualsResult == evaluate(EqualsExpr)

\* the state resetAll() leaves
InResetState ==
    /\ displayPrimary = <<"0">>
    /\ displaySecondary = <<>>
    /\ expression = <<>>
    /\ hasError = FALSE

\* C1: when computeEquals runs on a division whose result is non-finite
\* (5 ÷ 0 =), hasError becomes true and the primary display shows the error
\* text, and a digit pressed while the display shows it changes nothing.
C1_NonFiniteEntersError ==
    [][/\ (/\ last'.op = "computeEquals"
           /\ ~hasError
           /\ Includes(EqualsExpr, "÷")
           /\ EqualsResult.ok
           /\ ~IsFinite(EqualsResult.val))
              => (hasError' /\ displayPrimary' = ErrorText)
       /\ (last'.op = "inputDigit" /\ displayPrimary = ErrorText)
              => UNCHANGED uiVars]_vars

\* C2: an operator pressed right after another operator replaces the
\* trailing operator of the committed expression; an operator pressed after
\* the digits of an operand (here: a digit key that left an operand other
\* than "0") appends that operand and the operator, so that digits a, op1,
\* digits b, op2 commit "a op1 b op2".
C2_OperatorKeepsOperands ==
    [][(last'.op = "appendOperator" /\ ~hasError) =>
          IF last.op = "appendOperator"
          THEN expression' = SubSeq(expression, 1, Len(expression) - 1) \o <<last'.arg>>
          ELSE IF last.op = "inputDigit" /\ displayPrimary # <<"0">>
          THEN expression' =
                  (IF expression = <<>> THEN <<>> ELSE expression \o <<" ">>)
                      \o displayPrimary \o <<" ", last'.arg>>
          ELSE TRUE]_vars

\* C5: while hasError is true the primary display shows the error text;
\* digit, decimal point, operator, sign, percent, backspace and equals leave
\* the four fields unchanged, and clear entry and full reset, and only they,
\* end the Error state.
C5_ErrorLocksEditing ==
    /\ [](hasError => displayPrimary = ErrorText)
    /\ [][hasError =>
             IF last'.op \in {"resetAll", "clearEntry"}
             THEN ~hasError'
             ELSE UNCHANGED uiVars]_vars

\* C5's case: backspace was pressed in the Error state, which still holds
C5_Witness ==
    /\ last.op = "backspace"
    /\ last.err
    /\ hasError
    /\ displayPrimary = ErrorText

\* C6: full reset, from any state, leaves primary "0", secondary "", no
\* error and no committed expression; a second full reset changes nothing;
\* clear entry in the Error state leaves the same state as full reset.
C6_FullReset ==
    [][/\ (last'.op = "resetAll" \/ (last'.op = "clearEntry" /\ hasError))
              => InResetState'
       /\ (last.op = "resetAll" /\ last'.op = "resetAll") => UNCHANGED uiVars]_vars

\* C6's case: clear entry was pressed in the Error state, after an
\* evaluation had filled the secondary display
C6_Witness ==
    /\ last.op = "clearEntry"
    /\ last.err
    /\ InResetState
    /\ nkeys >= 4

\* C8: when tokenize fails during computeEquals the failure is caught and the
\* engine enters the Error state (hasError true, primary display the error
\* text), and the non-finite result of a division enters it in exactly the
\* same way.
C8_BothErrorsEnterError ==
    [][(last'.op = "computeEquals" /\ ~hasError) =>
          /\ ~EqualsResult.ok => (hasError' /\ displayPrimary' = ErrorText)
          /\ (/\ Includes(EqualsExpr, "÷")
              /\ EqualsResult.ok
              /\ ~IsFinite(EqualsResult.val))
                 => (/\ hasError' /\ displayPrimary' = ErrorText
                     /\ UNCHANGED <<displaySecondary, expression>>)]_vars

\* the part of C8 that concerns the failure of tokenize alone
C8_TokenizeFailureCaught ==
    [][(last'.op = "computeEquals" /\ ~hasError /\ ~EqualsResult.ok)
          => (/\ hasError' /\ displayPrimary' = ErrorText
              /\ UNCHANGED <<displaySecondary, expression>>)]_vars

\* the committed expression followed by the operand, as computeEquals joins
\* them before trimming
JoinedExpr ==
    IF expression # <<>> THEN expression \o <<" ">> \o displayPrimary
    ELSE displayPrimary

\* the state has a committed "a op" and an operand b, a and b single digits
OneDigitOperands ==
    /\ Len(expression) = 3
    /\ expression[1] \in DigitChars
    /\ expression[2] = " "
    /\ expression[3] \in OperatorChars
    /\ Len(displayPrimary) = 1
    /\ displayPrimary[1] \in DigitChars

\* C11: when computeEquals runs with hasError false, tokenize succeeds and
\* the result is finite, the primary display becomes formatNumber(result),
\* result being the value of the committed expression followed by the
\* operand (for "a op" and b: a op b in arithmetic), the committed expression
\* becomes empty and hasError stays false.
C11_EqualsShowsResult ==
    [][(/\ last'.op = "computeEquals"
        /\ ~hasError
        /\ evaluate(JoinedExpr).ok
        /\ IsFinite(evaluate(JoinedExpr).val))
           => /\ displayPrimary' = formatNumber(evaluate(JoinedExpr).val)
              /\ expression' = <<>>
              /\ ~hasError'
              /\ OneDigitOperands =>
                     displayPrimary' = formatNumber(
                         ApplyOp(<<expression[3]>>,
                                 FromInt(DigitValue(expression[1])),
                                 FromInt(DigitValue(displayPrimary[1]))))]_vars

\* C11's case: 2 + 5 has been evaluated to 7
C11_Witness ==
    /\ last.op = "computeEquals"
    /\ ~last.err
    /\ ~hasError
    /\ expression = <<>>
    /\ displaySecondary = <<"2", " ", "+", " ", "5", " ", "=">>
    /\ displayPrimary = <<"7">>

\* C14: whatever handlers have run since setup, the string computeEquals
\* hands to tokenize holds only characters tokenize recognizes, so tokenize
\* does not fail, also when a result or the result of percent is the operand
\* (here: whenever that string holds nothing of the error text).
C14_TokenizeNeverFails ==
    [][(/\ last'.op = "computeEquals"
        /\ ~hasError
        /\ ~Includes(EqualsExpr, "E"))
           => tokenize(EqualsExpr).ok]_vars

\* C17: backspace with hasError false removes the last character of the
\* operand, except that an operand of one character, or of a '-' and one
\* character, becomes "0"; so the operand is never empty and never a lone
\* "-" in any reachable state.
C17_Backspace ==
    /\ [](displayPrimary # <<>> /\ displayPrimary # <<"-">>)
    /\ [][(last'.op = "backspace" /\ ~hasError) =>
             /\ displayPrimary' =
                    IF \/ Len(displayPrimary) = 1
                       \/ Len(displayPrimary) = 2 /\ displayPrimary[1] = "-"
                    THEN <<"0">>
                    ELSE SubSeq(displayPrimary, 1, Len(displayPrimary) - 1)
             /\ UNCHANGED <<displaySecondary, expression, hasError>>]_vars

\* C17's case: backspace has removed the last character of a negative
\* operand of two digits
C17_Witness ==
    /\ last.op = "backspace"
    /\ ~last.err
    /\ nkeys = 4
    /\ displayPrimary = <<"-", "2">>

\* the parts of C19 about the shape of the committed expression, about what
\* makes it non-empty, and about the state an operator press leaves
C19_OperatorCommits ==
    /\ [](expression = <<>> \/ expression[Len(expression)] \in OperatorChars)
    /\ [][/\ (expression = <<>> /\ expression' # <<>>) => last'.op = "appendOperator"
          /\ (last'.op = "appendOperator" /\ ~hasError) =>
                 /\ displaySecondary' = expression'
                 /\ displayPrimary' = <<"0">>]_vars

\* C19: the committed expression is empty or ends with one of + - × ÷; only
\* an operator press makes it non-empty, and only resetAll (called by the
\* reset key, or by clear entry when hasError is true) or a computeEquals
\* whose result is finite makes it empty; after an operator press with
\* hasError false the secondary display equals the committed expression and
\* the operand is "0" (here, for what makes it empty: a committed expression
\* that starts with a nonzero digit).
C19_ExpressionLifecycle ==
    /\ C19_OperatorCommits
    /\ [][(/\ expression # <<>>
            /\ expression[1] \in DigitChars \ {"0"}
            /\ expression' = <<>>) =>
             \/ last'.op = "resetAll"
             \/ last'.op = "clearEntry" /\ hasError
             \/ /\ last'.op = "computeEquals"
                /\ ~hasError
                /\ EqualsResult.ok
                /\ IsFinite(EqualsResult.val)]_vars

----------------------------------------------------------------------------
(* Claims about the editing of the operand, checked under EditSpec *)

\* how many digit characters s holds
DigitCharCount(s) == Cardinality({i \in 1..Len(s) : s[i] \in DigitChars})

\* k times the character c
RECURSIVE Repeat(_, _)
Repeat(c, k) == IF k <= 0 THEN <<>> ELSE <<c>> \o Repeat(c, k - 1)

\* C16: in every state reached from setup by digit, decimal point, sign,
\* backspace, clear entry, operator and reset, the operand holds at most 16
\* digit characters; a digit pressed on an operand of 16 digits changes
\* nothing, a digit pressed on "0" or "-0" replaces the 0, and any other
\* digit press appends the digit.
C16_DigitCap ==
    /\ [](DigitCharCount(displayPrimary) <= maxDigits)
    /\ [][(last'.op = "inputDigit" /\ typed' # typed) =>
             IF DigitCharCount(displayPrimary) = maxDigits THEN UNCHANGED uiVars
             ELSE IF displayPrimary = <<"0">> THEN displayPrimary' = <<last'.arg>>
             ELSE IF displayPrimary = <<"-", "0">>
                  THEN displayPrimary' = <<"-", last'.arg>>
             ELSE displayPrimary' = Append(displayPrimary, last'.arg)]_vars

\* C16's case: 17 digits, a sign and a decimal point were pressed, and the
\* operand holds 16 of the digits
C16_Witness ==
    /\ last.op = "inputDigit"
    /\ Len(typed) = maxDigits + 1
    /\ nkeys = 2
    /\ displayPrimary = <<"-", "7", ".">> \o Repeat("7", maxDigits - 1)

\* s is an optional '-', one or more digits, and then optionally a '.' and
\* zero or more digits
OperandShape(s) ==
    LET u  == Unsigned(s)
        di == IndexOf(u, ".")
        ip == IF di = 0 THEN u ELSE SubSeq(u, 1, di - 1)
        fp == IF di = 0 THEN <<>> ELSE SubSeq(u, di + 1, Len(u))
    IN  Len(ip) >= 1 /\ AllDigits(ip) /\ AllDigits(fp)

\* tokenize scans s as one 'num' token
SingleNumberToken(s) == tokenize(s) = [ok |-> TRUE, toks |-> <<Tok("num", s)>>]

\* the parts of C18 about inputDot and the shape of the operand
C18_DotAndShape ==
    /\ [](OperandShape(displayPrimary))
    /\ [][(last'.op = "inputDot" /\ ~hasError) =>
             /\ displayPrimary' = IF Includes(displayPrimary, ".") THEN displayPrimary
                                  ELSE Append(displayPrimary, ".")
             /\ UNCHANGED <<displaySecondary, expression, hasError>>]_vars

\* C18: inputDot appends a '.' when the operand has none and changes nothing
\* otherwise; so in every state reached from setup by digit, decimal point,
\* sign, backspace, clear entry, operator and reset the operand is an
\* optional '-', digits, and optionally a '.' and more digits, and tokenize
\* scans it as a single 'num' token (here: an operand with a nonzero digit).
C18_OperandIsOneToken ==
    /\ C18_DotAndShape
    /\ [](Includes(displayPrimary, "7") => SingleNumberToken(displayPrimary))

----------------------------------------------------------------------------
(* Claims about digit entry, checked under DigitSpec *)

\* D without its leading zeros
RECURSIVE SignificantDigits(_)
SignificantDigits(D) ==
    IF Len(D) > 0 /\ D[1] = "0" THEN SignificantDigits(Tail(D)) ELSE D

\* D with its leading zeros collapsed
Collapsed(D) == IF SignificantDigits(D) = <<>> THEN <<"0">> ELSE SignificantDigits(D)

\* C7: from the reset state, pressing the digits of a sequence with at most
\* 16 significant digits leaves that sequence, leading zeros collapsed, in
\* the primary display (and "0" for a sequence of zeros).
C7_DigitsShown ==
    (Len(typed) > 0 /\ Len(SignificantDigits(typed)) <= maxDigits)
        => displayPrimary = Collapsed(typed)

\* C7's case: a leading zero and then 16 significant digits were pressed
C7_Witness ==
    /\ Len(typed) = maxDigits + 1
    /\ typed[1] = "0"
    /\ Len(SignificantDigits(typed)) = maxDigits
    /\ displayPrimary = SignificantDigits(typed)

====
